---- MODULE Spec2Model ----
(***************************************************************************)
(* Forward modelling for point masses (harmonica/forward/point_mass.py).   *)
(*                                                                         *)
(* Numbers.  The program computes in float64.  The model computes in exact *)
(* rational arithmetic: a number is a pair <<n, d>> with d > 0 and         *)
(* gcd(n, d) = 1, so rounding is abstracted and every equality below is an *)
(* equality of real numbers.  Angles in radians are kept as rational       *)
(* multiples of pi (<<1, 2>> is pi/2), and the inputs are restricted to     *)
(* multiples of 90 degrees, where sine and cosine are exactly -1, 0 or 1,  *)
(* and to geometries whose squared distance is a perfect square, where the *)
(* square root is exact.  Sequences are 1-based: index l of the model is   *)
(* index l - 1 of the program.                                             *)
(***************************************************************************)
EXTENDS Integers, Sequences, FiniteSets, TLC

(* ------------------------------ bounds -------------------------------- *)
\* largest extent of one axis of an observation array (arrays are 2-D)
MaxDim == 2
\* largest number of observation points handed to the jitted loops directly
MaxObs == 2
\* largest number of point masses
MaxSources == 2

(* --------------------------- exact arithmetic ------------------------- *)
Abs(n) == IF n < 0 THEN -n ELSE n

RECURSIVE GCD(_, _)
GCD(a, b) == IF b = 0 THEN a ELSE GCD(b, a % b)

Norm(n, d) ==
    LET g == GCD(Abs(n), Abs(d))
        s == IF d < 0 THEN -1 ELSE 1
    IN  <<(s * n) \div g, (s * d) \div g>>

Rat(n) == <<n, 1>>
Zero == Rat(0)
One == Rat(1)
IsZero(x) == x[1] = 0

\* a + b of the program
RAdd(x, y) ==
    LET g == GCD(x[2], y[2])
    IN  Norm(x[1] * (y[2] \div g) + y[1] * (x[2] \div g), (x[2] \div g) * y[2])
RNeg(x) == <<-x[1], x[2]>>
RSub(x, y) == RAdd(x, RNeg(y))
\* a * b of the program
RMul(x, y) ==
    LET a == Norm(x[1], y[2])
        b == Norm(y[1], x[2])
    IN  Norm(a[1] * b[1], a[2] * b[2])

IsSquare(n) == n >= 0 /\ \E k \in 0..n : k * k = n
ISqrt(n) == CHOOSE k \in 0..n : k * k = n
HasSqrt(x) == IsSquare(x[1]) /\ IsSquare(x[2])
\* np.sqrt, exact on the squares the inputs are restricted to
Sqrt(x) == <<ISqrt(x[1]), ISqrt(x[2])>>
\* x ** (3 / 2): 3 / 2 is 1.5 (true division)
Pow32(x) == RMul(x, Sqrt(x))

\* Numba compiles the kernels with @jit(nopython=True), whose error model is
\* the default "python": a float division by zero raises ZeroDivisionError
\* instead of producing inf or nan.
Div(x, y) ==
    IF IsZero(y)
    THEN [exc |-> "ZeroDivisionError", val |-> Zero]
    ELSE [exc |-> "none", val |-> RMul(x, Norm(y[2], y[1]))]

(* ------------------------------- angles ------------------------------- *)
\* np.radians: degrees to radians, as a rational multiple of pi
Radians(deg) == Norm(deg, 180)
\* number of quarter turns of an angle that is a multiple of pi / 2
Quarter(a) == ((2 * a[1]) \div a[2]) % 4
Cos(a) == CASE Quarter(a) = 0 -> One
            [] Quarter(a) = 2 -> Rat(-1)
            [] OTHER -> Zero
Sin(a) == CASE Quarter(a) = 1 -> One
            [] Quarter(a) = 3 -> Rat(-1)
            [] OTHER -> Zero

(* ------------------------------- kernels ------------------------------ *)
coslambda(longitude, longitude_p) == Cos(RSub(longitude_p, longitude))

cospsi(longitude, cosphi, sinphi, longitude_p, cosphi_p, sinphi_p) ==
    RAdd(RMul(sinphi_p, sinphi),
         RMul(RMul(cosphi_p, cosphi), coslambda(longitude, longitude_p)))

\* mutant: the law of cosines with the wrong sign
distance_sq_plus(radius, radius_p, radius_p_sq, cpsi) ==
    RAdd(RAdd(RMul(radius, radius), radius_p_sq),
         RMul(RMul(RMul(Rat(2), radius), radius_p), cpsi))

distance_sq(radius, radius_p, radius_p_sq, cpsi) ==
    RSub(RAdd(RMul(radius, radius), radius_p_sq),
         RMul(RMul(RMul(Rat(2), radius), radius_p), cpsi))

kernel_potential(longitude, cosphi, sinphi, radius, longitude_p, cosphi_p, sinphi_p, radius_p, radius_p_sq) ==
    LET cpsi == cospsi(longitude, cosphi, sinphi, longitude_p, cosphi_p, sinphi_p)
        dsq == distance_sq(radius, radius_p, radius_p_sq, cpsi)
    IN  Div(One, Sqrt(dsq))

kernel_g_radial(longitude, cosphi, sinphi, radius, longitude_p, cosphi_p, sinphi_p, radius_p, radius_p_sq) ==
    LET cpsi == cospsi(longitude, cosphi, sinphi, longitude_p, cosphi_p, sinphi_p)
        dsq == distance_sq(radius, radius_p, radius_p_sq, cpsi)
        delta_z == RSub(RMul(radius_p, cpsi), radius)
    IN  Div(delta_z, Pow32(dsq))

(* --------------------- constants of the program ----------------------- *)
\* GRAVITATIONAL_CONST of harmonica/constants.py (6.67408e-11 there).  The
\* model keeps a small rational that is neither 0 nor 1 in its place.
GRAVITATIONAL_CONST == <<2, 3>>
\* result *= 1e5  # SI to mGal
SI_TO_MGAL == 100000
\* kernels = {"potential": kernel_potential, "g_radial": kernel_g_radial}
kernels == {"potential", "g_radial"}
\* field in ("g_radial"): the parentheses make no tuple, so this is Python's
\* substring test on the string "g_radial"; these are the strings it accepts
\* among the field names the model draws
InGRadial == {"g_radial", "radial"}

(* ------------------------------- arrays ------------------------------- *)
\* An array is [shape |-> <<rows, cols>>, data |-> its elements in row-major
\* (C) order].
Size(shape) == shape[1] * shape[2]
Max(a, b) == IF a >= b THEN a ELSE b
Zeros(n) == [i \in 1..n |-> Zero]

\* np.broadcast(a, b, c): the shapes agree on each axis or are 1 there
Compatible(shapes) ==
    \A ax \in 1..2 : \A i, j \in 1..3 :
        shapes[i][ax] = shapes[j][ax] \/ shapes[i][ax] = 1 \/ shapes[j][ax] = 1
BroadcastShape(shapes) ==
    <<Max(shapes[1][1], Max(shapes[2][1], shapes[3][1])),
      Max(shapes[1][2], Max(shapes[2][2], shapes[3][2]))>>
\* the element of array a that numpy's broadcasting puts at flat index i of
\* the broadcast shape bs
BroadcastIndex(a, bs, i) ==
    LET row == (i - 1) \div bs[2]
        col == (i - 1) % bs[2]
        ra == IF a.shape[1] = 1 THEN 0 ELSE row
        ca == IF a.shape[2] = 1 THEN 0 ELSE col
    IN  ra * a.shape[2] + ca + 1
\* i.ravel(): the array's own elements, flattened
Ravel(a) == a.data

(* --------------------------- preparation ------------------------------ *)
PrepLongitude(lons) == [i \in 1..Len(lons) |-> Radians(lons[i])]
PrepCosphi(lats) == [i \in 1..Len(lats) |-> Cos(Radians(lats[i]))]
PrepSinphi(lats) == [i \in 1..Len(lats) |-> Sin(Radians(lats[i]))]
PrepRadius(rads) == [i \in 1..Len(rads) |-> Rat(rads[i])]
PrepRadiusSq(rads) == [i \in 1..Len(rads) |-> RMul(Rat(rads[i]), Rat(rads[i]))]

\* kernel(...) called with the l-th computation point and the j-th point mass
\* of the prepared quantities p
CallKernel(kernel, p, l, j) ==
    IF kernel = "potential"
    THEN kernel_potential(p.longitude[l], p.cosphi[l], p.sinphi[l], p.radius[l],
                          p.longitude_p[j], p.cosphi_p[j], p.sinphi_p[j],
                          p.radius_p[j], p.radius_p_sq[j])
    ELSE kernel_g_radial(p.longitude[l], p.cosphi[l], p.sinphi[l], p.radius[l],
                         p.longitude_p[j], p.cosphi_p[j], p.sinphi_p[j],
                         p.radius_p[j], p.radius_p_sq[j])

\* everything both jitted functions compute before their loop
Prepared(lons, lats, rads, lons_p, lats_p, rads_p) ==
    [longitude |-> PrepLongitude(lons), cosphi |-> PrepCosphi(lats),
     sinphi |-> PrepSinphi(lats), radius |-> PrepRadius(rads),
     longitude_p |-> PrepLongitude(lons_p), cosphi_p |-> PrepCosphi(lats_p),
     sinphi_p |-> PrepSinphi(lats_p), radius_p |-> PrepRadius(rads_p),
     radius_p_sq |-> PrepRadiusSq(rads_p)]

NoPrep == Prepared(<<>>, <<>>, <<>>, <<>>, <<>>, <<>>)

(* ------------------------- the loops' bodies -------------------------- *)
\* mutant: the loop stops one element short
LoopRangeShort(buf) == 1..(Len(buf) - 1)
\* for l in range(out.size)
LoopRange(buf) == 1..Len(buf)
\* mutant: the loop assigns instead of adding
AccumulateOverwrite(buf, l, k) == [buf EXCEPT ![l] = k]
\* out[l] += kernel(...)
Accumulate(buf, l, k) == [buf EXCEPT ![l] = RAdd(@, k)]
\* mutant: the loop forgets the mass
AccumulateMassUnweighted(sum, m, k) == RAdd(sum, k)
\* out += masses[l] * kernel(...)
AccumulateMass(sum, m, k) == RAdd(sum, RMul(Rat(m), k))
\* mutant: the scaling takes the magnitude of the mass
ScaleByMagnitude(buf, m) ==
    [i \in 1..Len(buf) |-> RMul(buf[i], RMul(GRAVITATIONAL_CONST, Rat(Abs(m))))]
\* result *= GRAVITATIONAL_CONST * mass
Scale(buf, m) ==
    [i \in 1..Len(buf) |-> RMul(buf[i], RMul(GRAVITATIONAL_CONST, Rat(m)))]
\* mutant: every field is converted to mGal
ConvertEveryField(buf, f) == [i \in 1..Len(buf) |-> RMul(buf[i], Rat(SI_TO_MGAL))]
\* if field in ("g_radial"): result *= 1e5
Convert(buf, f) ==
    IF f \in InGRadial
    THEN [i \in 1..Len(buf) |-> RMul(buf[i], Rat(SI_TO_MGAL))]
    ELSE buf
\* mutant: the field name is validated with the substring test of the unit
\* conversion
RecognizedBySubstring(f) == f \in kernels \cup InGRadial
\* field not in kernels
Recognized(f) == f \in kernels

(* ------------------------------- inputs ------------------------------- *)
Lons == <<0, 180>>
Lats == <<0, 90>>
Radii == <<4, 3>>
Shapes == (1..MaxDim) \X (1..MaxDim)
Patterns == {"constant", "alternating"}
\* an array of the given shape over the two values of vals
MkArray(vals, shape, pat) ==
    [shape |-> shape,
     data |-> [i \in 1..Size(shape) |->
                 IF pat = "constant" THEN vals[1] ELSE vals[2 - (i % 2)]]]
\* point masses: <<longitude, latitude, radius>> in degrees, degrees, metres
SourcePoints == {<<0, 0, 3>>, <<0, 90, 3>>, <<180, 0, 1>>}
ObsPoints == {<<0, 0, 4>>, <<0, 0, 3>>, <<0, 90, 4>>}
Masses == {1, -2}
\* the masses of n point masses: all 1, or -2, 1, -2, ...
MassSeqs(n) == {[j \in 1..n |-> 1], [j \in 1..n |-> IF j % 2 = 1 THEN -2 ELSE 1]}
Fields == {"potential", "g_radial", "bogus", "radial"}
\* what the kernel of an out-of-bounds read can add to an element of the
\* buffer: a value standing for whatever lies behind the array
Garbage == {<<7, 2>>}
\* contents of a caller's buffer handed to jit_point_mass_gravity
Buffers(n) == {Zeros(n), [i \in 1..n |-> <<2 * i + 1, 2>>]}

\* squared distance between a computation point and a point mass
DistanceSqOf(lon, lat, rad, pt) ==
    LET p == Prepared(<<lon>>, <<lat>>, <<rad>>, <<pt[1]>>, <<pt[2]>>, <<pt[3]>>)
    IN  distance_sq(p.radius[1], p.radius_p[1], p.radius_p_sq[1],
                    cospsi(p.longitude[1], p.cosphi[1], p.sinphi[1],
                           p.longitude_p[1], p.cosphi_p[1], p.sinphi_p[1]))

\* the triples a call can pair up: element by element of the flattened
\* arrays, and element by element of the broadcast arrays
Triples(c) ==
    LET shapes == <<c[1].shape, c[2].shape, c[3].shape>>
        bs == BroadcastShape(shapes)
        n == Size(bs)
    IN  {<<c[1].data[i], c[2].data[i], c[3].data[i]>> :
            i \in {k \in 1..n : \A a \in 1..3 : k <= Len(c[a].data)}}
        \cup
        (IF Compatible(shapes)
         THEN {<<c[1].data[BroadcastIndex(c[1], bs, i)],
                 c[2].data[BroadcastIndex(c[2], bs, i)],
                 c[3].data[BroadcastIndex(c[3], bs, i)]>> : i \in 1..n}
         ELSE {})

\* the inputs the exact square root covers
Exact(c, srcs) ==
    \A t \in Triples(c) : \A j \in 1..Len(srcs) :
        HasSqrt(DistanceSqOf(t[1], t[2], t[3], srcs[j]))

ShapeTriples == Shapes \X Shapes \X Shapes
CoordinateArrays(s, q) ==
    <<MkArray(Lons, s[1], q[1]), MkArray(Lats, s[2], q[2]), MkArray(Radii, s[3], q[3])>>

\* calls point_mass_gravity carries out: a field it knows, shapes that
\* broadcast
AcceptedCalls ==
    {in \in [fn : {"point_mass_gravity"},
             coordinates : {CoordinateArrays(s, q) :
                              s \in {t \in ShapeTriples : Compatible(t)},
                              q \in Patterns \X Patterns \X Patterns},
             sources : {<<pt>> : pt \in SourcePoints},
             masses : {<<m>> : m \in Masses},
             field : kernels,
             out : {<<>>}] :
        Exact(in.coordinates, in.sources)}

\* calls it rejects before reading an element, a point mass or the mass: a
\* field it does not know, or shapes that do not broadcast
RejectedCalls ==
    {in \in [fn : {"point_mass_gravity"},
             coordinates : {CoordinateArrays(s, <<"constant", "constant", "constant">>) :
                              s \in ShapeTriples},
             sources : {<<<<0, 0, 3>>>>},
             masses : {<<1>>},
             field : Fields,
             out : {<<>>}] :
        in.field \notin kernels
        \/ ~Compatible(<<in.coordinates[1].shape, in.coordinates[2].shape,
                         in.coordinates[3].shape>>)}

PointMassGravityCalls == AcceptedCalls \cup RejectedCalls

\* 1-D coordinate arrays holding the given computation points
Columns(pts) ==
    <<[shape |-> <<1, Len(pts)>>, data |-> [i \in 1..Len(pts) |-> pts[i][1]]],
      [shape |-> <<1, Len(pts)>>, data |-> [i \in 1..Len(pts) |-> pts[i][2]]],
      [shape |-> <<1, Len(pts)>>, data |-> [i \in 1..Len(pts) |-> pts[i][3]]]>>

SeqsUpTo(S, n) == UNION {[1..k -> S] : k \in 1..n}

SourceSets ==
    UNION {[1..n -> SourcePoints] \X MassSeqs(n) : n \in 1..MaxSources}

JitPointMassCalls ==
    {in \in UNION {[fn : {"jit_point_mass_gravity"},
                    coordinates : {Columns(pts)},
                    sources : {sm[1] : sm \in SourceSets},
                    masses : {sm[2] : sm \in SourceSets},
                    field : kernels,
                    out : Buffers(Len(pts))] : pts \in SeqsUpTo(ObsPoints, MaxObs)} :
        Len(in.sources) = Len(in.masses) /\ Exact(in.coordinates, in.sources)}

JitPointMassesCalls ==
    {in \in [fn : {"jit_point_masses_gravity"},
             coordinates : {Columns(<<pt>>) : pt \in ObsPoints},
             sources : {sm[1] : sm \in SourceSets},
             masses : {sm[2] : sm \in SourceSets},
             field : kernels,
             out : {<<>>}] :
        Len(in.sources) = Len(in.masses) /\ Exact(in.coordinates, in.sources)}

(* ------------------------------- state -------------------------------- *)
VARIABLES
    fn,           \* the function the caller has called
    coordinates,  \* the caller's three coordinate arrays (degrees, degrees, metres)
    sources,      \* the caller's point masses
    masses,       \* their masses
    field,        \* the field name (the kernel, for the jitted functions)
    pc,           \* the statement about to run
    call,         \* which point mass the running call of a one-point function has
    cast,         \* cast.shape
    allocated,    \* whether point_mass_gravity has allocated result
    flat,         \* longitude, latitude, radius handed to the loop
    prep,         \* the quantities computed before the loop
    out,          \* the output buffer (result of point_mass_gravity)
    acc,          \* the local out of jit_point_masses_gravity
    l,            \* the loop index
    ret,          \* the returned value
    exc,          \* the exception that ended the call
    out0,         \* history: the buffer when the running call began
    raw,          \* history: the buffer when the loop returned
    writes,       \* history: how often the running call wrote each index
    kernel_calls, \* history: kernel evaluations
    oob           \* history: the loop read past the end of an array

inputs == <<fn, coordinates, sources, masses, field>>
vars == <<fn, coordinates, sources, masses, field, pc, call, cast, allocated, flat,
          prep, out, acc, l, ret, exc, out0, raw, writes, kernel_calls, oob>>

NoExc == [type |-> "none", arg |-> ""]
NoRet == [shape |-> <<0, 0>>, data |-> <<>>]
NoFlat == <<<<>>, <<>>, <<>>>>

Init ==
    \E in \in PointMassGravityCalls \cup JitPointMassCalls \cup JitPointMassesCalls :
        /\ fn = in.fn
        /\ coordinates = in.coordinates
        /\ sources = in.sources
        /\ masses = in.masses
        /\ field = in.field
        /\ out = in.out
        /\ pc = "start"
        /\ call = 1
        /\ cast = <<0, 0>>
        /\ allocated = FALSE
        /\ flat = NoFlat
        /\ prep = NoPrep
        /\ acc = Zero
        /\ l = 0
        /\ ret = NoRet
        /\ exc = NoExc
        /\ out0 = in.out
        /\ raw = <<>>
        /\ writes = [i \in 1..Len(in.out) |-> 0]
        /\ kernel_calls = 0
        /\ oob = FALSE

point == sources[call]
mass == masses[call]

Raise(type, arg) == pc' = "raised" /\ exc' = [type |-> type, arg |-> arg]

(* ------------------------- point_mass_gravity ------------------------- *)
\* if field not in kernels: raise ValueError("Gravity field {} not recognized")
CheckField ==
    /\ pc = "start" /\ fn = "point_mass_gravity"
    /\ IF Recognized(field)
       THEN pc' = "broadcast" /\ UNCHANGED exc
       ELSE Raise("ValueError", field)
    /\ UNCHANGED <<inputs, call, cast, allocated, flat, prep, out, acc, l, ret,
                   out0, raw, writes, kernel_calls, oob>>

\* cast = np.broadcast(*coordinates[:3])
Broadcast ==
    /\ pc = "broadcast"
    /\ LET shapes == <<coordinates[1].shape, coordinates[2].shape, coordinates[3].shape>>
       IN  IF Compatible(shapes)
           THEN cast' = BroadcastShape(shapes) /\ pc' = "allocate" /\ UNCHANGED exc
           ELSE Raise("ValueError", "shape mismatch") /\ UNCHANGED cast
    /\ UNCHANGED <<inputs, call, allocated, flat, prep, out, acc, l, ret,
                   out0, raw, writes, kernel_calls, oob>>

\* result = np.zeros(cast.size, dtype=dtype)
Allocate ==
    /\ pc = "allocate"
    /\ out' = Zeros(Size(cast))
    /\ out0' = out'
    /\ writes' = [i \in 1..Size(cast) |-> 0]
    /\ allocated' = TRUE
    /\ pc' = "ravel"
    /\ UNCHANGED <<inputs, call, cast, flat, prep, acc, l, ret, exc, raw,
                   kernel_calls, oob>>

\* longitude, latitude, radius = (i.ravel() for i in coordinates[:3])
RavelStep ==
    /\ pc = "ravel"
    /\ flat' = <<Ravel(coordinates[1]), Ravel(coordinates[2]), Ravel(coordinates[3])>>
    /\ pc' = "prepare"
    /\ UNCHANGED <<inputs, call, cast, allocated, prep, out, acc, l, ret, exc,
                   out0, raw, writes, kernel_calls, oob>>

\* result *= GRAVITATIONAL_CONST * mass
ScaleStep ==
    /\ pc = "scale"
    /\ out' = Scale(out, mass)
    /\ pc' = "convert"
    /\ UNCHANGED <<inputs, call, cast, allocated, flat, prep, acc, l, ret, exc,
                   out0, raw, writes, kernel_calls, oob>>

\* if field in ("g_radial"): result *= 1e5
ConvertStep ==
    /\ pc = "convert"
    /\ out' = Convert(out, field)
    /\ pc' = "reshape"
    /\ UNCHANGED <<inputs, call, cast, allocated, flat, prep, acc, l, ret, exc,
                   out0, raw, writes, kernel_calls, oob>>

\* return result.reshape(cast.shape)
Return ==
    /\ pc = "reshape"
    /\ ret' = [shape |-> cast, data |-> out]
    /\ pc' = "done"
    /\ UNCHANGED <<inputs, call, cast, allocated, flat, prep, out, acc, l, exc,
                   out0, raw, writes, kernel_calls, oob>>

(* ----------------------- jit_point_mass_gravity ----------------------- *)
\* a caller hands the jitted function its own flat arrays and buffer
JitCall ==
    /\ pc = "start" /\ fn = "jit_point_mass_gravity"
    /\ flat' = <<coordinates[1].data, coordinates[2].data, coordinates[3].data>>
    /\ pc' = "prepare"
    /\ UNCHANGED <<inputs, call, cast, allocated, prep, out, acc, l, ret, exc,
                   out0, raw, writes, kernel_calls, oob>>

\* the statements before the loop: radians, cosines, sines, radius_p ** 2
PrepareStep ==
    /\ pc = "prepare"
    /\ prep' = Prepared(flat[1], flat[2], flat[3],
                        <<point[1]>>, <<point[2]>>, <<point[3]>>)
    /\ l' = 1
    /\ pc' = "loop"
    /\ UNCHANGED <<inputs, call, cast, allocated, flat, out, acc, ret, exc,
                   out0, raw, writes, kernel_calls, oob>>

\* index l exists in the three prepared arrays of the computation points
InBounds(i) ==
    /\ i <= Len(prep.longitude)
    /\ i <= Len(prep.cosphi)
    /\ i <= Len(prep.radius)

\* out[l] += kernel(...), the arrays holding an element l
LoopStep ==
    /\ pc = "loop" /\ l \in LoopRange(out) /\ InBounds(l)
    /\ kernel_calls' = kernel_calls + 1
    /\ LET k == CallKernel(field, prep, l, 1)
       IN  IF k.exc = "none"
           THEN /\ out' = Accumulate(out, l, k.val)
                /\ writes' = [writes EXCEPT ![l] = @ + 1]
                /\ l' = l + 1
                /\ UNCHANGED <<pc, exc>>
           ELSE /\ Raise(k.exc, "division by zero")
                /\ UNCHANGED <<out, writes, l>>
    /\ UNCHANGED <<inputs, call, cast, allocated, flat, prep, acc, ret, out0, raw, oob>>

\* out[l] += kernel(...), an array being shorter than out: nopython code
\* checks no bounds, so the read is of whatever lies behind the array, or
\* the process dies
LoopStepOutOfBounds ==
    /\ pc = "loop" /\ l \in LoopRange(out) /\ ~InBounds(l)
    /\ oob' = TRUE
    /\ kernel_calls' = kernel_calls + 1
    /\ \/ \E g \in Garbage :
            /\ out' = Accumulate(out, l, g)
            /\ writes' = [writes EXCEPT ![l] = @ + 1]
            /\ l' = l + 1
            /\ UNCHANGED <<pc, exc>>
       \/ /\ Raise("SegmentationFault", "")
          /\ UNCHANGED <<out, writes, l>>
    /\ UNCHANGED <<inputs, call, cast, allocated, flat, prep, acc, ret, out0, raw>>

\* the loop ends and jit_point_mass_gravity returns
LoopExit ==
    /\ pc = "loop" /\ l \notin LoopRange(out)
    /\ raw' = out
    /\ pc' = IF fn = "point_mass_gravity" THEN "scale" ELSE "returned"
    /\ UNCHANGED <<inputs, call, cast, allocated, flat, prep, out, acc, l, ret, exc,
                   out0, writes, kernel_calls, oob>>

\* the outer loop over the point masses: the caller runs the function again,
\* for the next point mass, on the same buffer
NextSource ==
    /\ pc = "returned" /\ fn = "jit_point_mass_gravity"
    /\ call < Len(sources)
    /\ call' = call + 1
    /\ writes' = [i \in 1..Len(out) |-> 0]
    /\ pc' = "prepare"
    /\ UNCHANGED <<inputs, cast, allocated, flat, prep, out, acc, l, ret, exc,
                   out0, raw, kernel_calls, oob>>

(* ---------------------- jit_point_masses_gravity ---------------------- *)
\* the statements before the loop, and out = 0
MassesPrepare ==
    /\ pc = "start" /\ fn = "jit_point_masses_gravity"
    /\ prep' = Prepared(<<coordinates[1].data[1]>>, <<coordinates[2].data[1]>>,
                        <<coordinates[3].data[1]>>,
                        [j \in 1..Len(sources) |-> sources[j][1]],
                        [j \in 1..Len(sources) |-> sources[j][2]],
                        [j \in 1..Len(sources) |-> sources[j][3]])
    /\ acc' = Zero
    /\ l' = 1
    /\ pc' = "mloop"
    /\ UNCHANGED <<inputs, call, cast, allocated, flat, out, ret, exc,
                   out0, raw, writes, kernel_calls, oob>>

\* for l in range(longitude_p.size): out += masses[l] * kernel(...)
MassesStep ==
    /\ pc = "mloop" /\ l <= Len(prep.longitude_p)
    /\ kernel_calls' = kernel_calls + 1
    /\ LET k == CallKernel(field, prep, 1, l)
       IN  IF k.exc = "none"
           THEN /\ acc' = AccumulateMass(acc, masses[l], k.val)
                /\ l' = l + 1
                /\ UNCHANGED <<pc, exc>>
           ELSE /\ Raise(k.exc, "division by zero")
                /\ UNCHANGED <<acc, l>>
    /\ UNCHANGED <<inputs, call, cast, allocated, flat, prep, out, ret,
                   out0, raw, writes, oob>>

\* return out
MassesReturn ==
    /\ pc = "mloop" /\ l > Len(prep.longitude_p)
    /\ ret' = [shape |-> <<1, 1>>, data |-> <<acc>>]
    /\ pc' = "done"
    /\ UNCHANGED <<inputs, call, cast, allocated, flat, prep, out, acc, l, exc,
                   out0, raw, writes, kernel_calls, oob>>

Next ==
    \/ CheckField \/ Broadcast \/ Allocate \/ RavelStep
    \/ ScaleStep \/ ConvertStep \/ Return
    \/ JitCall \/ PrepareStep \/ LoopStep \/ LoopStepOutOfBounds \/ LoopExit
    \/ NextSource
    \/ MassesPrepare \/ MassesStep \/ MassesReturn

Spec == Init /\ [][Next]_vars

(* ------------------- the functions as whole results ------------------- *)
\* kernel(...) for one computation point and one point mass, both in degrees
KernelAt(kernel, lon, lat, rad, pt) ==
    CallKernel(kernel,
               Prepared(<<lon>>, <<lat>>, <<rad>>, <<pt[1]>>, <<pt[2]>>, <<pt[3]>>),
               1, 1)

\* one element of what point_mass_gravity returns: the loop's addition into
\* the zeroed buffer, the scaling and the unit conversion
PointMassGravityAt(lon, lat, rad, pt, m, f) ==
    LET k == KernelAt(f, lon, lat, rad, pt)
    IN  [exc |-> k.exc,
         val |-> Convert(Scale(Accumulate(<<Zero>>, 1, k.val), m), f)[1]]

\* what jit_point_masses_gravity returns for one computation point, its loop
\* having run over the first n point masses
RECURSIVE jit_point_masses_gravity(_, _, _, _, _, _, _)
jit_point_masses_gravity(kernel, lon, lat, rad, srcs, ms, n) ==
    IF n = 0
    THEN [exc |-> "none", val |-> Zero]
    ELSE LET before == jit_point_masses_gravity(kernel, lon, lat, rad, srcs, ms, n - 1)
             k == KernelAt(kernel, lon, lat, rad, srcs[n])
         IN  IF before.exc # "none" THEN before
             ELSE IF k.exc # "none" THEN k
             ELSE [exc |-> "none", val |-> AccumulateMass(before.val, ms[n], k.val)]

(* ------------------------------ the claims ---------------------------- *)
TypeOK ==
    /\ pc \in {"start", "broadcast", "allocate", "ravel", "prepare", "loop", "scale",
               "convert", "reshape", "returned", "mloop", "done", "raised"}
    /\ exc.type \in {"none", "ValueError", "ZeroDivisionError", "SegmentationFault"}

shapes3 == <<coordinates[1].shape, coordinates[2].shape, coordinates[3].shape>>
SameShapes == shapes3[1] = shapes3[2] /\ shapes3[2] = shapes3[3]
IsFinite(v) == v[2] # 0

\* C1: once point_mass_gravity has looked at a field name that is neither
\* "potential" nor "g_radial", the call has ended with a ValueError that
\* carries the name, no buffer has been allocated, no kernel has been
\* evaluated and nothing has been returned.
C1_InvalidFieldFailsFast ==
    (fn = "point_mass_gravity" /\ field \notin {"potential", "g_radial"} /\ pc # "start")
    => /\ pc = "raised"
       /\ exc = [type |-> "ValueError", arg |-> field]
       /\ ~allocated /\ out = <<>>
       /\ kernel_calls = 0
       /\ ret = NoRet

C1_Witness ==
    /\ fn = "point_mass_gravity" /\ field = "bogus"
    /\ pc = "raised" /\ exc.type = "ValueError" /\ exc.arg = "bogus"

\* C2: for broadcast-compatible coordinate arrays point_mass_gravity never
\* reads past the end of a flattened array, and what it returns has the
\* broadcast shape and holds, at every broadcast index i, the field of the
\* (longitude, latitude, radius) triple broadcast to i.
C2_BroadcastBeforeFlatten ==
    (fn = "point_mass_gravity" /\ Compatible(shapes3))
    => /\ ~oob
       /\ pc = "done" =>
            /\ ret.shape = BroadcastShape(shapes3)
            /\ Len(ret.data) = Size(BroadcastShape(shapes3))
            /\ \A i \in 1..Len(ret.data) :
                 ret.data[i] =
                   PointMassGravityAt(
                     coordinates[1].data[BroadcastIndex(coordinates[1], ret.shape, i)],
                     coordinates[2].data[BroadcastIndex(coordinates[2], ret.shape, i)],
                     coordinates[3].data[BroadcastIndex(coordinates[3], ret.shape, i)],
                     point, mass, field).val

\* the computation points that lie exactly on the point mass
Collocated ==
    {i \in 1..Len(coordinates[1].data) :
        <<coordinates[1].data[i], coordinates[2].data[i], coordinates[3].data[i]>> = point}

\* C5: when a computation point has the longitude, latitude and radius of
\* the point mass, point_mass_gravity raises nothing and returns a
\* non-finite value at that element.
C5_CollocationNonFinite ==
    (fn = "point_mass_gravity" /\ field \in {"potential", "g_radial"}
        /\ SameShapes /\ Collocated # {})
    => /\ exc.type = "none"
       /\ pc = "done" => \A i \in Collocated : ~IsFinite(ret.data[i])

(* sums the claims are stated with *)
Ks == {-3, -1, 2}
Times(k, v) == RMul(Rat(k), v)
Obs(i) == <<coordinates[1].data[i], coordinates[2].data[i], coordinates[3].data[i]>>
KernelOf(i, j) == KernelAt(field, Obs(i)[1], Obs(i)[2], Obs(i)[3], sources[j])

\* sum over the first n point masses of kernel(obs_i, source_j)
RECURSIVE SumKernels(_, _)
SumKernels(i, n) ==
    IF n = 0 THEN Zero ELSE RAdd(SumKernels(i, n - 1), KernelOf(i, n).val)
\* sum over the first n point masses of mass_j * kernel(obs_i, source_j)
RECURSIVE SumWeighted(_, _)
SumWeighted(i, n) ==
    IF n = 0 THEN Zero
    ELSE RAdd(SumWeighted(i, n - 1), Times(masses[n], KernelOf(i, n).val))
\* sum over the first n point masses of what point_mass_gravity returns for
\* computation point i and that point mass alone
RECURSIVE SumSingleCalls(_, _)
SumSingleCalls(i, n) ==
    IF n = 0 THEN Zero
    ELSE RAdd(SumSingleCalls(i, n - 1),
              PointMassGravityAt(Obs(i)[1], Obs(i)[2], Obs(i)[3],
                                 sources[n], masses[n], field).val)
SingleCallRaises(i, n) ==
    PointMassGravityAt(Obs(i)[1], Obs(i)[2], Obs(i)[3],
                       sources[n], masses[n], field).exc # "none"
UnitFactor == IF field = "g_radial" THEN Rat(100000) ELSE One

\* C3 (as stated): what jit_point_masses_gravity returns for the whole set
\* of point masses is the sum of what point_mass_gravity returns for each
\* point mass alone.
C3_Superposition ==
    (fn = "jit_point_masses_gravity" /\ pc = "done")
    => ret.data[1] = SumSingleCalls(1, Len(sources))

\* C3 (amended): the sum of the single point_mass_gravity results is G times
\* (and, for g_radial, 1e5 times) what jit_point_masses_gravity returns for
\* the whole set, which carries neither factor; and the whole-set call
\* raises exactly when a single call does.
C3_SuperpositionUpToFactors ==
    fn = "jit_point_masses_gravity" =>
      /\ pc = "done" =>
           /\ SumSingleCalls(1, Len(sources))
                = RMul(RMul(GRAVITATIONAL_CONST, UnitFactor), ret.data[1])
           /\ \A j \in 1..Len(sources) : ~SingleCallRaises(1, j)
      /\ pc = "raised" => \E j \in 1..Len(sources) : SingleCallRaises(1, j)

C3_Witness ==
    /\ fn = "jit_point_masses_gravity" /\ pc = "done"
    /\ Len(sources) = 2 /\ masses = <<-2, 1>>
    /\ field = "g_radial"
    /\ ~IsZero(ret.data[1])

\* how many point masses have been added into element i of the buffer
Added(i) ==
    CASE pc = "returned" -> call
      [] pc \in {"loop", "raised"} /\ i < l -> call
      [] pc = "start" -> 0
      [] OTHER -> call - 1
InLoop ==
    /\ fn \in {"jit_point_mass_gravity", "point_mass_gravity"}
    /\ pc \in {"start", "prepare", "loop", "returned", "raised"}
    /\ ~oob

\* C4 (as stated): when jit_point_mass_gravity returns, element i of the
\* buffer holds what it held before plus the mass-weighted kernels.
C4_AddsMassWeighted ==
    (fn = "jit_point_mass_gravity" /\ pc = "returned")
    => \A i \in 1..Len(out) : out[i] = RAdd(out0[i], SumWeighted(i, call))

\* C4 (amended): the loop adds and does not weight: at every moment element
\* i of the buffer holds what it held before the first call plus the bare
\* kernel of every point mass already added into it; the mass is no part of
\* the loop (point_mass_gravity multiplies the buffer by it afterwards).
C4_AddsUnweighted ==
    InLoop => /\ Len(out) = Len(out0)
              /\ \A i \in 1..Len(out) : out[i] = RAdd(out0[i], SumKernels(i, Added(i)))

C4_Witness ==
    /\ fn = "jit_point_mass_gravity" /\ pc = "returned" /\ call = 2
    /\ ~IsZero(out0[1]) /\ out[1] # out0[1]
    /\ masses[1] # 1

\* C6: what point_mass_gravity returns is G * mass times what the loop left
\* in the buffer, times 1e5 exactly when the field is "g_radial"; for arrays
\* of one shape the loop leaves the kernel of each computation point.
C6_UnitFactorOnlyForGRadial ==
    (fn = "point_mass_gravity" /\ pc = "done")
    => /\ Len(ret.data) = Len(raw)
       /\ \A i \in 1..Len(raw) :
            ret.data[i] = RMul(RMul(RMul(GRAVITATIONAL_CONST, Rat(mass)), UnitFactor), raw[i])
       /\ SameShapes => \A i \in 1..Len(raw) : raw[i] = KernelOf(i, 1).val

C6_Witness ==
    /\ fn = "point_mass_gravity" /\ pc = "done" /\ SameShapes
    /\ field = "g_radial" /\ Len(ret.data) > 1
    /\ ~IsZero(ret.data[1])

\* the computation points straight above the point mass
Above ==
    {i \in 1..Len(prep.longitude) :
        /\ i <= Len(flat[2]) /\ i <= Len(flat[3])
        /\ flat[1][i] = point[1] /\ flat[2][i] = point[2] /\ flat[3][i] > point[3]}

\* C7: for a computation point with the longitude and latitude of the point
\* mass and a larger radius, cospsi is 1, distance_sq is (r_o - r_p)^2 and
\* the potential returned is G * m / (r_o - r_p).
C7_Collinear ==
    (fn = "point_mass_gravity" /\ pc \in {"loop", "scale", "convert", "reshape", "done"})
    => \A i \in Above :
         LET cpsi == cospsi(prep.longitude[i], prep.cosphi[i], prep.sinphi[i],
                            prep.longitude_p[1], prep.cosphi_p[1], prep.sinphi_p[1])
             d == flat[3][i] - point[3]
         IN  /\ cpsi = One
             /\ distance_sq(prep.radius[i], prep.radius_p[1], prep.radius_p_sq[1], cpsi)
                  = Rat(d * d)
             /\ (pc = "done" /\ field = "potential" /\ SameShapes)
                  => ret.data[i] = RMul(GRAVITATIONAL_CONST, Norm(mass, d))

C7_Witness ==
    /\ fn = "point_mass_gravity" /\ pc = "done" /\ field = "potential" /\ SameShapes
    /\ \E i \in Above : flat[3][i] - point[3] > 1

\* C8: point_mass_gravity is linear in the mass: with the mass k times as
\* large, the scaling and conversion of the same loop output, and the result
\* of the call for arrays of one shape, are k times what was returned.
C8_MassLinearity ==
    (fn = "point_mass_gravity" /\ pc = "done")
    => \A k \in Ks :
         /\ Convert(Scale(raw, k * mass), field) = [i \in 1..Len(raw) |-> Times(k, ret.data[i])]
         /\ SameShapes =>
              \A i \in 1..Len(ret.data) :
                 PointMassGravityAt(Obs(i)[1], Obs(i)[2], Obs(i)[3], point, k * mass, field).val
                   = Times(k, ret.data[i])

C8_Witness ==
    /\ fn = "point_mass_gravity" /\ pc = "done" /\ SameShapes
    /\ mass = -2 /\ field = "g_radial"
    /\ \E i \in 1..Len(ret.data) : ~IsZero(ret.data[i])

Ones == [j \in 1..Len(sources) |-> 1]
ObsOrder(i, ms) ==
    jit_point_masses_gravity(field, Obs(i)[1], Obs(i)[2], Obs(i)[3],
                             sources, ms, Len(sources))
SourceOrderDone ==
    /\ fn = "jit_point_mass_gravity" /\ pc = "returned"
    /\ call = Len(sources) /\ out0 = Zeros(Len(out))

\* C9 (as stated): jit_point_mass_gravity run once per point mass on one
\* zeroed buffer leaves, at every index, what jit_point_masses_gravity
\* returns for that computation point and all the weighted point masses.
C9_LoopOrdersAgree ==
    SourceOrderDone => \A i \in 1..Len(out) : out[i] = ObsOrder(i, masses).val

\* C9 (amended): the buffer holds what jit_point_masses_gravity returns when
\* every mass is 1, so the two orders agree exactly when they do for unit
\* masses; one order raises where the other does.
C9_LoopOrdersAgreeForUnitMasses ==
    /\ SourceOrderDone =>
         \A i \in 1..Len(out) :
            /\ ObsOrder(i, Ones) = [exc |-> "none", val |-> out[i]]
            /\ masses = Ones => out[i] = ObsOrder(i, masses).val
    /\ (fn = "jit_point_mass_gravity" /\ pc = "raised")
         => \E i \in 1..Len(out) : ObsOrder(i, masses).exc = exc.type
    /\ (fn = "jit_point_masses_gravity" /\ pc \in {"done", "raised"})
         => ObsOrder(1, masses) =
              [exc |-> exc.type, val |-> IF pc = "done" THEN ret.data[1] ELSE Zero]

C9_Witness ==
    /\ SourceOrderDone /\ Len(sources) = 2 /\ Len(out) = 2
    /\ masses = Ones
    /\ \E i \in 1..Len(out) : ~IsZero(out[i])

LoopReturned ==
    \/ fn = "jit_point_mass_gravity" /\ pc = "returned"
    \/ fn = "point_mass_gravity" /\ pc \in {"scale", "convert", "reshape", "done"}

C10_WritesOnce ==
    /\ \A i \in 1..Len(writes) : writes[i] <= 1
    /\ LoopReturned => /\ Len(writes) = Len(out)
                       /\ \A i \in 1..Len(writes) : writes[i] = 1

C10_InputsKept ==
    /\ inputs' = inputs
    /\ fn = "jit_point_masses_gravity" => out' = out
    /\ pc' = "loop" =>
         /\ flat'[1] = coordinates[1].data
         /\ flat'[2] = coordinates[2].data
         /\ flat'[3] = coordinates[3].data
         /\ prep'.longitude = PrepLongitude(coordinates[1].data)

\* C10: no step of the three functions changes the coordinate arrays, the
\* point masses or the masses (the loop works on radians it computed beside
\* them), and when the accumulation loop has returned it has written every
\* index of the buffer exactly once.
C10_Frame == [](C10_WritesOnce) /\ [][C10_InputsKept]_vars

C10_Witness ==
    /\ fn = "jit_point_mass_gravity" /\ pc = "returned" /\ call = 2
    /\ Len(out) = 2 /\ \A i \in 1..Len(writes) : writes[i] = 1
    /\ coordinates[2].data = <<90, 90>> /\ prep.cosphi = <<Zero, Zero>>
====
